---- MODULE Spec2Model ----
(***************************************************************************)
(* Model of the motorcycle game in src/App.tsx (the second, current copy   *)
(* of the component, lines 1074-2164): terrain generation, terrain         *)
(* sampling, the per-frame physics tick, and the React state machine that  *)
(* drives them (startLevel, the gameLoop closure, the animation-frame      *)
(* effect, saveData).                                                      *)
(*                                                                         *)
(* Numbers.  The program computes in IEEE doubles.  Here every real is a   *)
(* fixed-point integer with three decimals: lengths in 1/1000 pixel,       *)
(* velocities in 1/1000 pixel per frame, angles in milliradians, and the   *)
(* results of sin/cos in thousandths.  Math.sin, Math.cos and Math.atan2   *)
(* are computed by polynomials that are exact to about 0.002.              *)
(***************************************************************************)
EXTENDS Integers, Sequences, FiniteSets, TLC

-----------------------------------------------------------------------------
(* Fixed-point arithmetic *)

ONE == 10 * 100

Abs(a) == IF a < 0 THEN -a ELSE a

Max(a, b) == IF a >= b THEN a ELSE b

\* a / b rounded to the nearest integer (b > 0)
RDiv(a, b) == (2 * a + b) \div (2 * b)

\* product of two fixed-point numbers
FxMul(a, b) == RDiv(a * b, ONE)

\* Math.ceil(a / b) for integers a >= 0, b > 0
CeilDiv(a, b) == (a + b - 1) \div b

PI == 3142
TwoPi == 2 * PI
HalfPi == PI \div 2

\* 2*pi in microradians, used only to reduce large phases without losing
\* the three decimals
TwoPiMicro == 6283185

Min(a, b) == IF a <= b THEN a ELSE b

\* Taylor polynomial of sin on [-pi/2, pi/2] in Horner form,
\* x (1 - x2/6 (1 - x2/20 (1 - x2/42))), with x2 the square of x
SinTerms(x, x2) ==
  FxMul(x, ONE - RDiv(FxMul(x2, ONE - RDiv(FxMul(x2, ONE - RDiv(x2, 42)), 20)), 6))

SinPoly(x) == SinTerms(x, FxMul(x, x))

\* sin of r in [0, 2 pi), folded onto [-pi/2, pi/2]
SinReduced(r) ==
  IF r <= HalfPi THEN SinPoly(r)
  ELSE IF r <= PI + HalfPi THEN SinPoly(PI - r)
  ELSE SinPoly(r - TwoPi)

\* Math.sin(a), a in milliradians (any sign, any size)
Sin(a) == Max(Min(SinReduced(a % TwoPi), ONE), -ONE)

\* Math.cos(a)
Cos(a) == Sin(a + HalfPi)

\* atan(z) for 0 <= z <= 1 (z in thousandths), in milliradians:
\* (pi/4) z + z (1 - z) (0.2447 + 0.0663 z)
AtanUnit(z) ==
  RDiv(PI * z, 4 * ONE) + FxMul(FxMul(z, ONE - z), 245 + RDiv(66 * z, ONE))

\* atan(n / d) for n >= 0, d >= 0: result in [0, pi/2]
AtanQuadrant(n, d) ==
  IF n = 0 THEN 0
  ELSE IF n <= d THEN AtanUnit(RDiv(n * ONE, d))
  ELSE HalfPi - AtanUnit(RDiv(d * ONE, n))

\* the angle q of the first quadrant carried to the quadrant of (x, y)
Quadrant(q, y, x) ==
  IF x >= 0 THEN (IF y < 0 THEN -q ELSE q)
  ELSE (IF y < 0 THEN q - PI ELSE PI - q)

\* Math.atan2(y, x) in milliradians, in (-pi, pi]; y and x are fixed-point
\* lengths of at most 1000 pixels
Atan2(y, x) == Quadrant(AtanQuadrant(Abs(y), Abs(x)), y, x)

-----------------------------------------------------------------------------
(* Program constants (src/App.tsx:1079-1091), in fixed point *)

GRAVITY == 220
ACCELERATION == 250
NITRO_ACCELERATION == 800
BRAKE_FORCE == 400
FRICTION == 960
MAX_SPEED == 28000
MAX_NITRO_SPEED == 60000
ROTATION_SPEED == 40
AIR_ROTATION_BOOST == 2000
ANGULAR_DAMPING == 920
WHEEL_BASE == 70000
CANVAS_HEIGHT == 1080000

-----------------------------------------------------------------------------
(* Terrain *)

\* const segmentLength = 50, in pixels and in fixed point
segmentLength == 50
SegFx == segmentLength * ONE

\* a whole number of radians as microradians modulo 2*pi
RECURSIVE RadMicro(_)
RadMicro(n) ==
  IF n <= 2000 THEN (n * 1000000) % TwoPiMicro
  ELSE (RadMicro(n - 2000) + ((2000 * 1000000) % TwoPiMicro)) % TwoPiMicro

\* Math.sin of a phase given in microradians
SinMicro(u) == Sin(RDiv(u % TwoPiMicro, 1000))

\* Math.pow(rampRaw, 4)
Pow4(r) == FxMul(FxMul(r, r), FxMul(r, r))

\* const ramp = rampRaw > 0 ? Math.pow(rampRaw, 4) : 0
Ramp(rampRaw) == IF rampRaw > 0 THEN Pow4(rampRaw) ELSE 0

\* noise1 + noise2: rolling hills of amplitude 80 and ramps of height 450
Noise(i, seed) ==
  SinMicro(i * 100000 + RadMicro(seed)) * 80
  + Ramp(SinMicro(i * 120000 + 3 * RadMicro(seed))) * 450

\* if (i < 20) noise *= (i / 20)
DampStart(noise, i) == IF i < 20 THEN RDiv(noise * i, 20) ELSE noise

\* an end of the course that is not damped
DampEndNone(noise, i, totalSegments) == noise

\* if (i > totalSegments - 20) noise *= ((totalSegments - i) / 20)
DampEnd(noise, i, totalSegments) ==
  IF i > totalSegments - 20 THEN RDiv(noise * (totalSegments - i), 20) ELSE noise

\* the two clamps of currentY
MinY == 100 * ONE
MaxY == CANVAS_HEIGHT - 50 * ONE
ClampY(y) == Max(Min(y, MaxY), MinY)

\* CANVAS_HEIGHT * 0.7
BaselineY == RDiv(CANVAS_HEIGHT * 7, 10)

\* a sample whose height is the damped noise itself
TerrainPointNoise(i, totalSegments, seed) ==
  [x |-> i * SegFx,
   y |-> DampEnd(DampStart(Noise(i, seed), i), i, totalSegments)]

\* the body of the for loop of generateTerrain for sample i
TerrainPoint(i, totalSegments, seed) ==
  [x |-> i * SegFx,
   y |-> ClampY(BaselineY - DampEnd(DampStart(Noise(i, seed), i), i, totalSegments))]

\* a generator that counts whole segments only
generateTerrainFloor(length, seed) ==
  [k \in 1..((length \div segmentLength) + 1) |->
     TerrainPoint(k - 1, length \div segmentLength, seed)]

\* generateTerrain(length, seed): length in whole pixels, seed an integer
generateTerrain(length, seed) ==
  [k \in 1..(CeilDiv(length, segmentLength) + 1) |->
     TerrainPoint(k - 1, CeilDiv(length, segmentLength), seed)]

\* an interpolation that measures t from the start of the profile
LerpFromOrigin(p1, p2, x) == p1.y + RDiv((p2.y - p1.y) * RDiv(x, segmentLength), ONE)

\* p1.y + (p2.y - p1.y) * t with t = (x - p1.x) / segmentLength
Lerp(p1, p2, x) == p1.y + RDiv((p2.y - p1.y) * RDiv(x - p1.x, segmentLength), ONE)

\* a sampler that returns the left sample of the segment, without
\* interpolation
HeightAtIndexStep(index, x, terrain) ==
  IF index >= Len(terrain) - 1 THEN terrain[Len(terrain)].y
  ELSE terrain[index + 1].y

\* getTerrainHeight from its second line on; terrain[index] of the program
\* is terrain[index + 1] here (sequences start at 1)
HeightAtIndex(index, x, terrain) ==
  IF index >= Len(terrain) - 1 THEN terrain[Len(terrain)].y
  ELSE Lerp(terrain[index + 1], terrain[index + 2], x)

\* getTerrainHeight(x, terrain)
getTerrainHeight(x, terrain) ==
  IF x < 0 THEN terrain[1].y ELSE HeightAtIndex(x \div SegFx, x, terrain)

-----------------------------------------------------------------------------
(* State *)

VARIABLES
  unlockedLevels,  \* useState: persistent state as of the last render
  coins,
  ownedBikes,
  selectedBikeId,
  gameState,       \* useState: game state as of the last render
  currentLevel,
  queued,          \* the same six values after the setState calls that no
                   \* render has applied yet
  bikeRef,         \* bikeRef.current
  inputsRef,       \* inputsRef.current
  terrainRef,      \* terrainRef.current
  elapsed,         \* Date.now() - startTimeRef.current, counted in frames
  gameLoop,        \* what the memoized gameLoop closure captured
  requestRef,      \* whether an animation-frame callback is pending
  storage,         \* localStorage['jalalBikerData_v3']: << >> or <<item>>
  last,            \* the operation that led to this state
  startPose,       \* history: bikeRef.current as the run in memory began
  frames,          \* animation-frame callbacks requested and neither run
                   \* nor cancelled
  startCoins       \* history: the purse as the run in memory began

vars == <<unlockedLevels, coins, ownedBikes, selectedBikeId, gameState,
          currentLevel, queued, bikeRef, inputsRef, terrainRef, elapsed,
          gameLoop, requestRef, storage, last, startPose, frames, startCoins>>

\* the React state a closure of the last render sees
Rendered ==
  [unlockedLevels |-> unlockedLevels, coins |-> coins,
   ownedBikes |-> ownedBikes, selectedBikeId |-> selectedBikeId,
   gameState |-> gameState, currentLevel |-> currentLevel]

NoInputs ==
  [throttle |-> FALSE, brake |-> FALSE, left |-> FALSE, right |-> FALSE,
   nitro |-> FALSE]

InputKeys == {"throttle", "brake", "left", "right", "nitro"}

\* ids and prices of BIKES
BIKES == (0 :> 0) @@ (1 :> 500) @@ (2 :> 1500) @@ (3 :> 3000)

-----------------------------------------------------------------------------
(* One physics step: the body of gameLoop between its guard and its
   setTime call, as a function of the pose, the terrain and the inputs *)

\* a crash window that opens at pi, the bike exactly on its back
CrashLoAtPi == PI

CrashLo == RDiv(PI * 10, 18)
CrashHi == RDiv(PI * 3, 2)

\* Math.abs(angle % (Math.PI * 2)): JavaScript's % keeps the sign of angle
NormalizedAngle(angle) == Abs(angle) % TwoPi

InCrashWindow(angle) ==
  NormalizedAngle(angle) > CrashLo /\ NormalizedAngle(angle) < CrashHi

\* a finish line on the last sample of the course
LastSampleX(terrain) == terrain[Len(terrain)].x

FinishLine(terrain) == terrain[Len(terrain) - 19].x

\* a clamp that applies the nitro limit whether or not nitro is held
ClampNitroOnly(v, currentMaxSpeed) == Max(Min(v, MAX_NITRO_SPEED), -MAX_SPEED)

\* the two speed clamps, in the program's order
Clamp(v, currentMaxSpeed) == Max(Min(v, currentMaxSpeed), -MAX_SPEED)

\* a velocity update that applies the friction before the throttle, the
\* nitro and the brake
VelocityFrictionFirst(bike, inputs) ==
  Clamp(FxMul(bike.velocity + FxMul(Sin(bike.angle), GRAVITY), FRICTION)
        + (IF inputs.throttle THEN ACCELERATION ELSE 0)
        + (IF inputs.nitro THEN NITRO_ACCELERATION ELSE 0)
        - (IF inputs.brake THEN BRAKE_FORCE ELSE 0),
        IF inputs.nitro THEN MAX_NITRO_SPEED ELSE MAX_SPEED)

\* bike.velocity after the gravity, throttle, nitro, brake, friction and clamp
\* lines
Velocity(bike, inputs) ==
  Clamp(FxMul(bike.velocity + FxMul(Sin(bike.angle), GRAVITY)
              + (IF inputs.throttle THEN ACCELERATION ELSE 0)
              + (IF inputs.nitro THEN NITRO_ACCELERATION ELSE 0)
              - (IF inputs.brake THEN BRAKE_FORCE ELSE 0),
              FRICTION),
        IF inputs.nitro THEN MAX_NITRO_SPEED ELSE MAX_SPEED)

\* an airborne test against the ground under the front wheel
IsAirborneAtFront(bike, terrain) ==
  Abs(bike.y - getTerrainHeight(bike.x + FxMul(Cos(bike.angle), WHEEL_BASE),
                                terrain)) > 15 * ONE

\* Math.abs(bike.y - groundRearY) > 15
IsAirborne(bike, terrain) ==
  Abs(bike.y - getTerrainHeight(bike.x, terrain)) > 15 * ONE

\* Math.atan2(groundFrontY - groundRearY, frontX - rearX)
TargetAngle(rearX, frontX, terrain) ==
  Atan2(getTerrainHeight(frontX, terrain) - getTerrainHeight(rearX, terrain),
        frontX - rearX)

\* const angleDiff = targetAngle - bike.angle
AngleDiff(bike, terrain) ==
  TargetAngle(bike.x, bike.x + FxMul(Cos(bike.angle), WHEEL_BASE), terrain)
  - bike.angle

\* a rotation force that is boosted only while the bike is airborne
RotationForceInAir(angleDiff) ==
  IF Abs(angleDiff) > 400 /\ IsAirborne(bikeRef, terrainRef)
  THEN FxMul(ROTATION_SPEED, AIR_ROTATION_BOOST)
  ELSE ROTATION_SPEED

\* rotationForce, boosted when Math.abs(angleDiff) > 0.4
RotationForce(angleDiff) ==
  IF Abs(angleDiff) > 400 THEN FxMul(ROTATION_SPEED, AIR_ROTATION_BOOST)
  ELSE ROTATION_SPEED

\* bike.angularVelocity after the nitro flip, the stability spring, the
\* rotation controls and the damping
AngularVelocity(bike, inputs, isAirborne, angleDiff) ==
  FxMul(bike.angularVelocity
        - (IF inputs.nitro /\ isAirborne THEN 30 ELSE 0)
        + FxMul(angleDiff, IF inputs.nitro THEN 50 ELSE 150)
        - (IF inputs.left THEN RotationForce(angleDiff) ELSE 0)
        + (IF inputs.right THEN RotationForce(angleDiff) ELSE 0),
        ANGULAR_DAMPING)

\* a step that leaves y as it was
MovedKeepY(bike, velocity, angularVelocity, groundRearY) ==
  [x |-> bike.x + FxMul(Cos(bike.angle), velocity),
   y |-> bike.y,
   velocity |-> velocity,
   angle |-> bike.angle + angularVelocity,
   angularVelocity |-> angularVelocity,
   lean |-> bike.lean]

\* a step that moves x along the angle it has just reached
MovedAlongNewAngle(bike, velocity, angularVelocity, groundRearY) ==
  [x |-> bike.x + FxMul(Cos(bike.angle + angularVelocity), velocity),
   y |-> groundRearY,
   velocity |-> velocity,
   angle |-> bike.angle + angularVelocity,
   angularVelocity |-> angularVelocity,
   lean |-> bike.lean]

\* the pose after the step: x moves along the old angle by the new velocity,
\* y is groundRearY in both branches
Moved(bike, velocity, angularVelocity, groundRearY) ==
  [x |-> bike.x + FxMul(Cos(bike.angle), velocity),
   y |-> groundRearY,
   velocity |-> velocity,
   angle |-> bike.angle + angularVelocity,
   angularVelocity |-> angularVelocity,
   lean |-> bike.lean]

\* crash detection and win detection on the moved pose
Detect(moved, terrain, isAirborne) ==
  [bike |-> moved,
   isAirborne |-> isAirborne,
   crashed |-> InCrashWindow(moved.angle),
   won |-> moved.x >= FinishLine(terrain)]

\* a step in which the selected bike adds its id to the velocity
TickOfSelectedBike(bike, terrain, inputs) ==
  Detect(Moved(bike,
               Velocity(bike, inputs) + selectedBikeId * ONE,
               AngularVelocity(bike, inputs, IsAirborne(bike, terrain),
                               AngleDiff(bike, terrain)),
               getTerrainHeight(bike.x, terrain)),
         terrain,
         IsAirborne(bike, terrain))

Tick(bike, terrain, inputs) ==
  Detect(Moved(bike,
               Velocity(bike, inputs),
               AngularVelocity(bike, inputs, IsAirborne(bike, terrain),
                               AngleDiff(bike, terrain)),
               getTerrainHeight(bike.x, terrain)),
         terrain,
         IsAirborne(bike, terrain))

-----------------------------------------------------------------------------
(* Bounds of the exploration *)

\* frames of one run that are followed
MaxTicks == 250

\* the pause button is followed during the first frames of a run, and in
\* the window between a tick that won the run and the render that shows it
MaxPauseTick == 2

\* level buttons of the level-select screen that are followed
MaxLevel == 3

\* keys held down together during a run
MaxKeys == 2

\* startLevel is followed while the purse holds fewer coins than this
MaxCoins == 76

\* the level-select screen has buttons 1..12
LevelButtons == 12

\* the keys are pressed and released before the first frame of a run and
\* then held
ControlsFree == gameState = "PLAYING" /\ elapsed = 0

KeysHeld(inputs) == Cardinality({k \in InputKeys : inputs[k]})

PauseFollowed == elapsed <= MaxPauseTick \/ queued.gameState = "WON"

-----------------------------------------------------------------------------
(* React: rendering and the animation-frame effect *)

\* the dependency list of useCallback(gameLoop)
Deps(r) == <<r.gameState, r.coins, r.unlockedLevels, r.ownedBikes, r.selectedBikeId>>

\* a cleanup that cancels nothing
CancelledNone == frames

\* cancelAnimationFrame(requestRef.current): the callback requestRef names is
\* dropped if it is still pending
Cancelled == IF requestRef THEN frames - 1 ELSE frames

\* A render applies the queued state q.  When a dependency of gameLoop
\* changed, gameLoop is a new closure over q, and the effect on [gameLoop]
\* cancels the pending frame and requests one for the new closure.
Commit(q) ==
  /\ unlockedLevels' = q.unlockedLevels
  /\ coins' = q.coins
  /\ ownedBikes' = q.ownedBikes
  /\ selectedBikeId' = q.selectedBikeId
  /\ gameState' = q.gameState
  /\ currentLevel' = q.currentLevel
  /\ queued' = q
  /\ IF Deps(q) # Deps(gameLoop)
     THEN gameLoop' = q /\ requestRef' = TRUE /\ frames' = Cancelled + 1
     ELSE UNCHANGED <<gameLoop, requestRef, frames>>

\* the render that follows setState calls made outside an event handler
Render ==
  /\ queued # Rendered
  /\ Commit(queued)
  /\ last' = [op |-> "render"]
  /\ UNCHANGED <<bikeRef, inputsRef, terrainRef, elapsed, storage, startPose, startCoins>>

\* the record saveData writes to localStorage and passes to the setters
SavedData(newLevel, newCoins, newBikes, newSelected) ==
  [unlockedLevels |-> newLevel, coins |-> newCoins,
   ownedBikes |-> newBikes, selectedBikeId |-> newSelected]

\* the queued React state after saveData's four setters
saveData(q, d) ==
  [q EXCEPT !.unlockedLevels = d.unlockedLevels, !.coins = d.coins,
            !.ownedBikes = d.ownedBikes, !.selectedBikeId = d.selectedBikeId]

-----------------------------------------------------------------------------
(* startLevel *)

\* a seed that also depends on the purse
LevelSeedWithCoins(levelId) == levelId * 999 + coins

\* courses a quarter as long
LevelLengthShort(levelId) == 1000 + levelId * 375

\* const seed = levelId * 999; const length = 4000 + (levelId * 1500)
LevelSeed(levelId) == levelId * 999
LevelLength(levelId) == 4000 + levelId * 1500

\* a gate that lets the first locked level through
LevelLockedAboveNext(levelId) == levelId > unlockedLevels + 1

\* if (levelId > unlockedLevels) return
LevelLocked(levelId) == levelId > unlockedLevels

\* a start that moves the bike of the last run onto the new ground
CarriedBike(terrain) ==
  [bikeRef EXCEPT !.y = getTerrainHeight(bikeRef.x, terrain)]

\* bikeRef.current = { x: 100, y: getTerrainHeight(100, ...), ... }
FreshBike(terrain) ==
  [x |-> 100 * ONE, y |-> getTerrainHeight(100 * ONE, terrain), velocity |-> 0,
   angle |-> 0, angularVelocity |-> 0, lean |-> 0]

\* the levels the buttons of the current screen pass to startLevel.  The
\* button of a locked level is disabled; the call is followed all the same,
\* it is the guard of startLevel that answers it.
StartButtons ==
  IF gameState = "LEVEL_SELECT" THEN 1..LevelButtons
  ELSE IF gameState = "WON" THEN {currentLevel, currentLevel + 1}
  ELSE IF gameState = "CRASHED" THEN {currentLevel}
  ELSE {}

startLevel(levelId) ==
  /\ levelId \in StartButtons
  /\ coins < MaxCoins
  /\ last' = [op |-> "startLevel", levelId |-> levelId, from |-> gameState,
               accepted |-> ~LevelLocked(levelId)]
  /\ IF LevelLocked(levelId)
     THEN UNCHANGED <<unlockedLevels, coins, ownedBikes, selectedBikeId,
                      gameState, currentLevel, queued, bikeRef, inputsRef,
                      terrainRef, elapsed, gameLoop, requestRef, storage,
                      startPose, frames, startCoins>>
     ELSE /\ terrainRef' = generateTerrain(LevelLength(levelId), LevelSeed(levelId))
          /\ bikeRef' = FreshBike(terrainRef')
          /\ startPose' = bikeRef'
          /\ startCoins' = queued.coins
          /\ inputsRef' = NoInputs
          /\ elapsed' = 0
          /\ Commit([queued EXCEPT !.currentLevel = levelId,
                                   !.gameState = "PLAYING"])
          /\ UNCHANGED storage

-----------------------------------------------------------------------------
(* gameLoop, run by the animation frame *)

\* if (gameState !== GameState.PLAYING) return
gameLoopReturn ==
  /\ requestRef
  /\ gameLoop.gameState # "PLAYING"
  /\ requestRef' = FALSE
  /\ frames' = frames - 1
  /\ last' = [op |-> "frame"]
  /\ UNCHANGED <<unlockedLevels, coins, ownedBikes, selectedBikeId, gameState,
                 currentLevel, queued, bikeRef, inputsRef, terrainRef, elapsed,
                 gameLoop, storage, startPose, startCoins>>

\* a win that pays the base reward only
WinDataBaseOnly(c) ==
  SavedData(Max(c.unlockedLevels, c.currentLevel + 1), c.coins + 50,
            c.ownedBikes, c.selectedBikeId)

\* a win that unlocks no level beyond the buttons of the level-select screen
WinDataOnScreen(c) ==
  SavedData(Max(c.unlockedLevels, Min(c.currentLevel + 1, LevelButtons)),
            c.coins + (50 + c.currentLevel * 25),
            c.ownedBikes, c.selectedBikeId)

\* the reward and the unlocked level of a win, computed by the closure
WinData(c) ==
  SavedData(Max(c.unlockedLevels, c.currentLevel + 1),
            c.coins + (50 + c.currentLevel * 25),
            c.ownedBikes, c.selectedBikeId)

\* the React state queued by one tick with result r of the closure c
Outcome(q, c, r) ==
  IF r.won THEN [saveData(q, WinData(c)) EXCEPT !.gameState = "WON"]
  ELSE IF r.crashed THEN [q EXCEPT !.gameState = "CRASHED"]
  ELSE q

\* the frame callback of a closure that is PLAYING.  The render of a state
\* update made by a tick is a task of its own: the next frame may come first
\* (once), and then runs the closure of the last render.
gameLoopTick ==
  /\ requestRef
  /\ gameLoop.gameState = "PLAYING"
  /\ elapsed < MaxTicks
  /\ ~(last.op = "tick" /\ last.stale)
  /\ \E r \in {Tick(bikeRef, terrainRef, inputsRef)} :
       /\ bikeRef' = r.bike
       /\ queued' = Outcome(queued, gameLoop, r)
       /\ storage' = IF r.won THEN <<WinData(gameLoop)>> ELSE storage
       /\ last' = [op |-> "tick", stale |-> queued # Rendered,
                   isAirborne |-> r.isAirborne, crashed |-> r.crashed,
                   won |-> r.won, rearX |-> bikeRef.x]
  /\ elapsed' = elapsed + 1
  /\ requestRef' = TRUE
  /\ frames' = (frames - 1) + 1
  /\ UNCHANGED <<unlockedLevels, coins, ownedBikes, selectedBikeId, gameState,
                 currentLevel, inputsRef, terrainRef, gameLoop, startPose, startCoins>>

-----------------------------------------------------------------------------
(* Event handlers *)

\* handleInput and the keyboard listeners
handleInput(type, active) ==
  /\ ControlsFree
  /\ inputsRef[type] # active
  /\ inputsRef' = [inputsRef EXCEPT ![type] = active]
  /\ KeysHeld(inputsRef') <= MaxKeys
  /\ last' = [op |-> "input"]
  /\ UNCHANGED <<unlockedLevels, coins, ownedBikes, selectedBikeId, gameState,
                 currentLevel, queued, bikeRef, terrainRef, elapsed, gameLoop,
                 requestRef, storage, startPose, frames, startCoins>>

\* the screens a button of the screen shown leads to by setGameState
Buttons ==
  CASE gameState = "MENU" -> {"LEVEL_SELECT", "SHOP"}
    [] gameState = "LEVEL_SELECT" -> {"MENU"}
    [] gameState = "SHOP" -> {"MENU"}
    [] gameState = "WON" -> {"MENU"}
    [] gameState = "CRASHED" -> {"MENU"}
    [] gameState = "PLAYING" -> IF PauseFollowed THEN {"PAUSED"} ELSE {}
    [] gameState = "PAUSED" -> {"PLAYING", "MENU"}
    [] OTHER -> {}

\* a button whose RESUME puts the bike back at the start of the course
setGameStateRestart(target) ==
  /\ target \in Buttons
  /\ Commit([queued EXCEPT !.gameState = target])
  /\ last' = [op |-> "setGameState", from |-> gameState]
  /\ bikeRef' = IF target = "PLAYING" THEN FreshBike(terrainRef) ELSE bikeRef
  /\ UNCHANGED <<inputsRef, terrainRef, elapsed, storage, startPose, startCoins>>

\* onClick={() => setGameState(target)}: React renders at the end of the
\* click, together with whatever was queued before it
setGameState(target) ==
  /\ target \in Buttons
  /\ Commit([queued EXCEPT !.gameState = target])
  /\ last' = [op |-> "setGameState", from |-> gameState]
  /\ UNCHANGED <<bikeRef, inputsRef, terrainRef, elapsed, storage, startPose, startCoins>>

-----------------------------------------------------------------------------
(* The shop.  The button of a bike calls selectBike when the bike is owned
   and buyBike when it is not, and is disabled when the purse is short; both
   calls are followed for every bike, it is the guards of the handlers that
   answer them. *)

\* ownedBikes.includes(id)
Includes(bikes, id) == \E k \in 1..Len(bikes) : bikes[k] = id

\* a purchase that saves the first level as the unlocked one
buyBikeFirstLevel(id, price) ==
  /\ gameState = "SHOP"
  /\ last' = [op |-> "buyBike", id |-> id, price |-> price,
               done |-> coins >= price /\ ~Includes(ownedBikes, id)]
  /\ IF coins >= price /\ ~Includes(ownedBikes, id)
     THEN /\ Commit(saveData(queued, SavedData(1, coins - price,
                                               Append(ownedBikes, id), id)))
          /\ storage' = <<SavedData(1, coins - price,
                                    Append(ownedBikes, id), id)>>
     ELSE UNCHANGED <<unlockedLevels, coins, ownedBikes, selectedBikeId,
                      gameState, currentLevel, queued, gameLoop, requestRef,
                      frames, storage>>
  /\ UNCHANGED <<bikeRef, inputsRef, terrainRef, elapsed, startPose, startCoins>>

\* a selection that takes any bike of the shop
selectBikeAny(id) ==
  /\ gameState = "SHOP"
  /\ last' = [op |-> "selectBike", id |-> id, done |-> TRUE]
  /\ Commit(saveData(queued, SavedData(unlockedLevels, coins, ownedBikes, id)))
  /\ storage' = <<SavedData(unlockedLevels, coins, ownedBikes, id)>>
  /\ UNCHANGED <<bikeRef, inputsRef, terrainRef, elapsed, startPose, startCoins>>

buyBike(id, price) ==
  /\ gameState = "SHOP"
  /\ last' = [op |-> "buyBike", id |-> id, price |-> price,
               done |-> coins >= price /\ ~Includes(ownedBikes, id)]
  /\ IF coins >= price /\ ~Includes(ownedBikes, id)
     THEN /\ Commit(saveData(queued, SavedData(unlockedLevels, coins - price,
                                               Append(ownedBikes, id), id)))
          /\ storage' = <<SavedData(unlockedLevels, coins - price,
                                    Append(ownedBikes, id), id)>>
     ELSE UNCHANGED <<unlockedLevels, coins, ownedBikes, selectedBikeId,
                      gameState, currentLevel, queued, gameLoop, requestRef,
                      frames, storage>>
  /\ UNCHANGED <<bikeRef, inputsRef, terrainRef, elapsed, startPose, startCoins>>

selectBike(id) ==
  /\ gameState = "SHOP"
  /\ last' = [op |-> "selectBike", id |-> id,
               done |-> Includes(ownedBikes, id)]
  /\ IF Includes(ownedBikes, id)
     THEN /\ Commit(saveData(queued, SavedData(unlockedLevels, coins,
                                               ownedBikes, id)))
          /\ storage' = <<SavedData(unlockedLevels, coins, ownedBikes, id)>>
     ELSE UNCHANGED <<unlockedLevels, coins, ownedBikes, selectedBikeId,
                      gameState, currentLevel, queued, gameLoop, requestRef,
                      frames, storage>>
  /\ UNCHANGED <<bikeRef, inputsRef, terrainRef, elapsed, startPose, startCoins>>

-----------------------------------------------------------------------------
(* The application *)

GameStates == {"MENU", "LEVEL_SELECT", "SHOP", "PLAYING", "PAUSED", "WON",
               "CRASHED", "CREDITS", "POLICY"}

Init ==
  /\ unlockedLevels = 1
  /\ coins = 0
  /\ ownedBikes = <<0>>
  /\ selectedBikeId = 0
  /\ gameState = "MENU"
  /\ currentLevel = 1
  /\ queued = Rendered
  /\ bikeRef = [x |-> 100 * ONE, y |-> 0, velocity |-> 0, angle |-> 0,
                angularVelocity |-> 0, lean |-> 0]
  /\ inputsRef = NoInputs
  /\ terrainRef = << >>
  /\ elapsed = 0
  /\ gameLoop = Rendered
  /\ requestRef = TRUE
  /\ storage = << >>
  /\ last = [op |-> "mount"]
  /\ startPose = bikeRef
  /\ frames = 1
  /\ startCoins = coins

Next ==
  \/ \E levelId \in 1..MaxLevel : startLevel(levelId)
  \/ gameLoopReturn
  \/ gameLoopTick
  \/ Render
  \/ \E type \in InputKeys, active \in BOOLEAN : handleInput(type, active)
  \/ \E target \in GameStates : setGameState(target)
  \/ \E id \in DOMAIN BIKES : buyBike(id, BIKES[id])
  \/ \E id \in DOMAIN BIKES : selectBike(id)

Spec == Init /\ [][Next]_vars

-----------------------------------------------------------------------------
(* The application with a purse that wins have filled: level 1 has been won
   a number of times, level 2 is unlocked, and no bike has been bought. *)

\* wins of level 1 on record: none, and as many as pay for bike 1, for
\* bikes 1 and 2, and for all three
FilledPurses == {0, 8, 28, 68}

InitShop ==
  /\ \E wins \in FilledPurses :
       /\ coins = wins * (50 + 25)
       /\ unlockedLevels = IF wins = 0 THEN 1 ELSE 2
  /\ ownedBikes = <<0>>
  /\ selectedBikeId = 0
  /\ gameState = "MENU"
  /\ currentLevel = 1
  /\ queued = Rendered
  /\ bikeRef = [x |-> 100 * ONE, y |-> 0, velocity |-> 0, angle |-> 0,
                angularVelocity |-> 0, lean |-> 0]
  /\ inputsRef = NoInputs
  /\ terrainRef = << >>
  /\ elapsed = 0
  /\ gameLoop = Rendered
  /\ requestRef = TRUE
  /\ storage = IF coins = 0 THEN << >>
               ELSE <<SavedData(unlockedLevels, coins, ownedBikes, selectedBikeId)>>
  /\ last = [op |-> "mount"]
  /\ startPose = bikeRef
  /\ frames = 1
  /\ startCoins = coins

SpecShop == InitShop /\ [][Next]_vars

-----------------------------------------------------------------------------
(* The tick on constructed poses: a run of level 1 is under way, the bike is
   put on the course with a chosen position, height, velocity and angle, the
   keys are held in a chosen combination, and the frames follow. *)

\* frames followed from a constructed pose
MaxRide == 12

\* velocities between the two clamps, in pixels per frame
PoseSpeeds == {-28, -10, 0, 10, 28, 60}

\* the bike stands upright or lies exactly on its back
PoseAngles == {0, PI}

\* heights above the ground of the rear wheel, in pixels
PoseLifts == {0, 100}

\* the course of the run under way, level 1
PoseTerrain == generateTerrain(LevelLength(1), LevelSeed(1))

\* the x of the 20th sample from the end of the course of level 1
PoseFinishX == (CeilDiv(LevelLength(1), segmentLength) - 19) * SegFx

\* the start, the foot of a ramp, and the finish line
PoseXs == {100 * ONE, 2950 * ONE, PoseFinishX}

InitTick ==
  /\ unlockedLevels = 1
  /\ coins = 0
  /\ ownedBikes = <<0>>
  /\ selectedBikeId = 0
  /\ gameState = "PLAYING"
  /\ currentLevel = 1
  /\ queued = Rendered
  /\ terrainRef = PoseTerrain
  /\ \E x \in PoseXs, lift \in PoseLifts, v \in PoseSpeeds, a \in PoseAngles :
       bikeRef = [x |-> x, y |-> getTerrainHeight(x, terrainRef) - lift * ONE,
                  velocity |-> v * ONE, angle |-> a, angularVelocity |-> 0,
                  lean |-> 0]
  /\ inputsRef \in [InputKeys -> BOOLEAN]
  /\ elapsed = 0
  /\ gameLoop = Rendered
  /\ requestRef = TRUE
  /\ storage = << >>
  /\ last = [op |-> "pose"]
  /\ startPose = bikeRef
  /\ frames = 1
  /\ startCoins = coins

\* a frame of the ride
Ride == elapsed < MaxRide /\ gameLoopTick

NextTick ==
  \/ Ride
  \/ Render
  \/ gameLoopReturn

SpecTick == InitTick /\ [][NextTick]_vars

-----------------------------------------------------------------------------
(* The end of a run: a run of a chosen level is under way, the level is the
   last unlocked one or the one before it, the bike rolls a few frames before
   the finish line, and the win screen follows.  The purse holds the rewards
   of the levels won on the way, nothing spent. *)

\* frames followed before the finish line and after a start from the win
\* screen
MaxFinish == 8

\* the first level, and the levels around the last button of level select
WinLevels == {1, 11, 12, 13}

\* distances to the finish line, in pixels
WinGaps == {5, 60}

InitWin ==
  /\ \E l \in WinLevels, u \in {0, 1} :
       /\ currentLevel = l
       /\ unlockedLevels = l + u
       /\ terrainRef = generateTerrain(LevelLength(l), LevelSeed(l))
  /\ coins = 50 * (unlockedLevels - 1)
             + (25 * (unlockedLevels - 1) * unlockedLevels) \div 2
  /\ ownedBikes = <<0>>
  /\ selectedBikeId = 0
  /\ gameState = "PLAYING"
  /\ queued = Rendered
  /\ \E gap \in WinGaps, v \in {10, 28} :
       bikeRef = [x |-> FinishLine(terrainRef) - gap * ONE,
                  y |-> getTerrainHeight(FinishLine(terrainRef) - gap * ONE,
                                         terrainRef),
                  velocity |-> v * ONE, angle |-> 0, angularVelocity |-> 0,
                  lean |-> 0]
  /\ \E throttle, nitro \in BOOLEAN :
       inputsRef = [NoInputs EXCEPT !.throttle = throttle, !.nitro = nitro]
  /\ elapsed = 0
  /\ gameLoop = Rendered
  /\ requestRef = TRUE
  /\ storage = IF unlockedLevels = 1 THEN << >>
               ELSE <<SavedData(unlockedLevels, coins, ownedBikes,
                                selectedBikeId)>>
  /\ last = [op |-> "pose"]
  /\ startPose = bikeRef
  /\ frames = 1
  /\ startCoins = coins

\* a frame before or after the finish line
Finish == elapsed < MaxFinish /\ gameLoopTick

NextWin ==
  \/ Finish
  \/ Render
  \/ gameLoopReturn
  \/ \E target \in GameStates : setGameState(target)
  \/ \E levelId \in StartButtons : startLevel(levelId)

SpecWin == InitWin /\ [][NextWin]_vars

-----------------------------------------------------------------------------
(* generateTerrain on chosen arguments *)

\* lengths 1..MaxGenLength and the lengths of the levels, seeds
\* 0..MaxGenSeed and the seeds of the levels
MaxGenLength == 300
MaxGenSeed == 2
GenLengths == (1..MaxGenLength) \cup {LevelLength(l) : l \in 1..MaxLevel}
GenSeeds == (0..MaxGenSeed) \cup {LevelSeed(l) : l \in 1..MaxLevel}

InitGen ==
  /\ unlockedLevels = 1
  /\ coins = 0
  /\ ownedBikes = <<0>>
  /\ selectedBikeId = 0
  /\ gameState = "MENU"
  /\ currentLevel = 1
  /\ queued = Rendered
  /\ bikeRef = [x |-> 100 * ONE, y |-> 0, velocity |-> 0, angle |-> 0,
                angularVelocity |-> 0, lean |-> 0]
  /\ inputsRef = NoInputs
  /\ terrainRef = << >>
  /\ elapsed = 0
  /\ gameLoop = Rendered
  /\ requestRef = TRUE
  /\ storage = << >>
  /\ \E length \in GenLengths, seed \in GenSeeds :
       last = [op |-> "arguments", length |-> length, seed |-> seed]
  /\ startPose = bikeRef
  /\ frames = 1
  /\ startCoins = coins

\* terrainRef.current = generateTerrain(length, seed)
Generate ==
  /\ last.op = "arguments"
  /\ terrainRef' = generateTerrain(last.length, last.seed)
  /\ last' = [last EXCEPT !.op = "generateTerrain"]
  /\ UNCHANGED <<unlockedLevels, coins, ownedBikes, selectedBikeId, gameState,
                 currentLevel, queued, bikeRef, inputsRef, elapsed, gameLoop,
                 requestRef, storage, startPose, frames, startCoins>>

NextGen == Generate

SpecGen == InitGen /\ [][NextGen]_vars

-----------------------------------------------------------------------------
(* getTerrainHeight on chosen arguments: a profile of 1..MaxSamples samples
   on the 50-pixel grid with heights chosen between the two clamps, and a
   position before, on, inside and beyond the profile *)

MaxSamples == 3

\* sample heights, in pixels: the two clamps and one height between them
SampleYs == {100, 400, 1030}

\* positions before the profile and, in every segment and beyond the last
\* sample, at 0, 0.001, 12.5, 25 and 49.999 pixels from a sample position
SampleXs ==
  {-SegFx, -1}
  \cup {k * SegFx + o : k \in 0..MaxSamples, o \in {0, 1, 12500, 25000, SegFx - 1}}

\* the profile with the heights ys on the grid of generateTerrain
Profile(ys) == [k \in 1..Len(ys) |-> [x |-> (k - 1) * SegFx, y |-> ys[k] * ONE]]

InitSample ==
  /\ unlockedLevels = 1
  /\ coins = 0
  /\ ownedBikes = <<0>>
  /\ selectedBikeId = 0
  /\ gameState = "MENU"
  /\ currentLevel = 1
  /\ queued = Rendered
  /\ bikeRef = [x |-> 100 * ONE, y |-> 0, velocity |-> 0, angle |-> 0,
                angularVelocity |-> 0, lean |-> 0]
  /\ inputsRef = NoInputs
  /\ \E n \in 1..MaxSamples : \E ys \in [1..n -> SampleYs] :
       terrainRef = Profile(ys)
  /\ elapsed = 0
  /\ gameLoop = Rendered
  /\ requestRef = TRUE
  /\ storage = << >>
  /\ \E x \in SampleXs : last = [op |-> "position", x |-> x]
  /\ startPose = bikeRef
  /\ frames = 1
  /\ startCoins = coins

\* const height = getTerrainHeight(x, terrainRef.current)
Sample ==
  /\ last.op = "position"
  /\ last' = [op |-> "getTerrainHeight", x |-> last.x,
               height |-> getTerrainHeight(last.x, terrainRef)]
  /\ UNCHANGED <<unlockedLevels, coins, ownedBikes, selectedBikeId, gameState,
                 currentLevel, queued, bikeRef, inputsRef, terrainRef, elapsed,
                 gameLoop, requestRef, storage, startPose, frames, startCoins>>

NextSample == Sample

SpecSample == InitSample /\ [][NextSample]_vars

-----------------------------------------------------------------------------
(* The load effect on mount, on chosen contents of localStorage.  An item is
   a JSON text.  The text of a JSON object is held as the record of its
   members; the text JSON.parse rejects and the text "null" are held as
   records of their own. *)

SaveFields == {"unlockedLevels", "coins", "ownedBikes", "selectedBikeId"}

\* the initial values of the four useState hooks
Defaults ==
  [unlockedLevels |-> 1, coins |-> 0, ownedBikes |-> <<0>>, selectedBikeId |-> 0]

\* a text that is not JSON, and the text "null"
Unparsable == [SyntaxError |-> TRUE]
JSONNull == [null |-> TRUE]

\* JSON.parse(savedData) throws, or parsed.unlockedLevels throws on null;
\* both before the first setter is called
Throws(item) == "SyntaxError" \in DOMAIN item \/ "null" \in DOMAIN item

\* whether value, a member named field, is truthy: an array is, a number is
\* unless it is 0
Truthy(field, value) == field = "ownedBikes" \/ value # 0

\* a fallback of 0 for every missing number
FieldOrZero(parsed, field, default) ==
  IF field \in DOMAIN parsed /\ Truthy(field, parsed[field]) THEN parsed[field]
  ELSE IF field = "ownedBikes" THEN default
  ELSE 0

\* parsed.field || default
FieldOr(parsed, field, default) ==
  IF field \in DOMAIN parsed /\ Truthy(field, parsed[field]) THEN parsed[field]
  ELSE default

\* the four setter calls of the try block
Loaded(q, parsed) ==
  [q EXCEPT !.unlockedLevels = FieldOr(parsed, "unlockedLevels", 1),
            !.coins = FieldOr(parsed, "coins", 0),
            !.ownedBikes = FieldOr(parsed, "ownedBikes", <<0>>),
            !.selectedBikeId = FieldOr(parsed, "selectedBikeId", 0)]

\* useEffect(() => { const savedData = localStorage.getItem(...) ... }, [])
LoadData ==
  /\ last.op = "mount"
  /\ queued' = IF storage = << >> THEN queued
               ELSE IF Throws(storage[1]) THEN queued
               ELSE Loaded(queued, storage[1])
  /\ last' = [op |-> "load"]
  /\ UNCHANGED <<unlockedLevels, coins, ownedBikes, selectedBikeId, gameState,
                 currentLevel, bikeRef, inputsRef, terrainRef, elapsed,
                 gameLoop, requestRef, storage, startPose, frames, startCoins>>

\* the JSON object with the members of D
StoredObject(D, u, c, o, sel) ==
  [f \in D |-> CASE f = "unlockedLevels" -> u
                 [] f = "coins" -> c
                 [] f = "ownedBikes" -> o
                 [] OTHER -> sel]

\* a text that does not parse, null, and the objects with any of the four
\* members, a number member being 0 or not
StoredItems ==
  {Unparsable, JSONNull}
  \cup {StoredObject(D, u, c, o, sel) :
          D \in SUBSET SaveFields, u \in {0, 2, 3}, c \in {0, 75, 500},
          o \in {<<0, 1>>}, sel \in {0, 1}}

InitLoad ==
  /\ unlockedLevels = 1
  /\ coins = 0
  /\ ownedBikes = <<0>>
  /\ selectedBikeId = 0
  /\ gameState = "MENU"
  /\ currentLevel = 1
  /\ queued = Rendered
  /\ bikeRef = [x |-> 100 * ONE, y |-> 0, velocity |-> 0, angle |-> 0,
                angularVelocity |-> 0, lean |-> 0]
  /\ inputsRef = NoInputs
  /\ terrainRef = << >>
  /\ elapsed = 0
  /\ gameLoop = Rendered
  /\ requestRef = TRUE
  /\ storage \in {<< >>} \cup {<<item>> : item \in StoredItems}
  /\ last = [op |-> "mount"]
  /\ startPose = bikeRef
  /\ frames = 1
  /\ startCoins = coins

NextLoad ==
  \/ LoadData
  \/ Render
  \/ gameLoopReturn

SpecLoad == InitLoad /\ [][NextLoad]_vars

-----------------------------------------------------------------------------
(* Runs of level 1 with different garages: the run has just been started,
   the keys are held in a chosen combination, and the owned and the selected
   bikes are those of a chosen saved record. *)

\* owned bikes and selected bike: ids of BIKES
Garages ==
  {[ownedBikes |-> <<0>>, selectedBikeId |-> 0],
   [ownedBikes |-> <<0, 1>>, selectedBikeId |-> 0],
   [ownedBikes |-> <<0, 1>>, selectedBikeId |-> 1],
   [ownedBikes |-> <<0, 1, 3>>, selectedBikeId |-> 3]}

InitBikes ==
  /\ unlockedLevels = 1
  /\ coins = 0
  /\ \E g \in Garages :
       ownedBikes = g.ownedBikes /\ selectedBikeId = g.selectedBikeId
  /\ gameState = "PLAYING"
  /\ currentLevel = 1
  /\ queued = Rendered
  /\ terrainRef = PoseTerrain
  /\ bikeRef = FreshBike(terrainRef)
  /\ inputsRef \in [InputKeys -> BOOLEAN]
  /\ elapsed = 0
  /\ gameLoop = Rendered
  /\ requestRef = TRUE
  /\ storage = << >>
  /\ last = [op |-> "pose"]
  /\ startPose = bikeRef
  /\ frames = 1
  /\ startCoins = coins

SpecBikes == InitBikes /\ [][NextTick]_vars

-----------------------------------------------------------------------------
(* Runs on flat ground: a profile of 3000 pixels at the baseline height,
   the bike at rest and upright on it at x = 100, the keys held in a chosen
   combination *)

\* frames followed on flat ground
MaxCoast == 155

FlatTerrain ==
  Profile([k \in 1..(CeilDiv(3000, segmentLength) + 1) |-> BaselineY \div ONE])

InitFlat ==
  /\ unlockedLevels = 1
  /\ coins = 0
  /\ ownedBikes = <<0>>
  /\ selectedBikeId = 0
  /\ gameState = "PLAYING"
  /\ currentLevel = 1
  /\ queued = Rendered
  /\ terrainRef = FlatTerrain
  /\ bikeRef = FreshBike(terrainRef)
  /\ inputsRef \in [InputKeys -> BOOLEAN]
  /\ elapsed = 0
  /\ gameLoop = Rendered
  /\ requestRef = TRUE
  /\ storage = << >>
  /\ last = [op |-> "pose"]
  /\ startPose = bikeRef
  /\ frames = 1
  /\ startCoins = coins

\* a frame of the run on flat ground
Coast == elapsed < MaxCoast /\ gameLoopTick

NextFlat ==
  \/ Coast
  \/ Render
  \/ gameLoopReturn

SpecFlat == InitFlat /\ [][NextFlat]_vars

-----------------------------------------------------------------------------
(* Properties of the application *)

\* a step of startLevel(levelId), accepted or not
StartStep(levelId) == last'.op = "startLevel" /\ last'.levelId = levelId

\* C1: a call startLevel(levelId) with levelId > unlockedLevels changes
\* nothing: the screen, the level, the terrain, the pose, the input flags and
\* the run clock stay as they are, rendered and queued, and no frame is
\* requested.
C1_LevelGate ==
  [][\A levelId \in 1..LevelButtons :
       StartStep(levelId) /\ levelId > unlockedLevels
         => UNCHANGED <<gameState, currentLevel, terrainRef, bikeRef, inputsRef,
                        elapsed, queued, gameLoop, requestRef, unlockedLevels,
                        coins, ownedBikes, selectedBikeId, storage,
                        startPose, frames, startCoins>>]_vars

\* a locked level was refused on the level-select screen after a run that
\* moved the bike
C1_Witness ==
  /\ last.op = "startLevel"
  /\ last.levelId > unlockedLevels
  /\ gameState = "LEVEL_SELECT"
  /\ terrainRef # << >>
  /\ bikeRef.x # 100 * ONE

\* C2: an accepted startLevel(levelId), from the level-select, the win or the
\* crash screen, installs the terrain of that level, the fresh pose
\* (100, heightAt(100), 0, 0, 0), five false input flags, currentLevel =
\* levelId and gameState = PLAYING.
C2_FreshStart ==
  [][\A levelId \in 1..LevelButtons :
       StartStep(levelId) /\ levelId <= unlockedLevels
         => /\ terrainRef' = generateTerrain(4000 + levelId * 1500, levelId * 999)
            /\ bikeRef'.x = 100 * ONE
            /\ bikeRef'.y = getTerrainHeight(100 * ONE, terrainRef')
            /\ bikeRef'.velocity = 0
            /\ bikeRef'.angle = 0
            /\ bikeRef'.angularVelocity = 0
            /\ \A k \in InputKeys : ~inputsRef'[k]
            /\ currentLevel' = levelId
            /\ gameState' = "PLAYING"]_vars

\* a run was started from the crash screen, where the bike of the crashed
\* run lay elsewhere, turned over
C2_Witness ==
  /\ last.op = "startLevel"
  /\ last.accepted
  /\ last.from = "CRASHED"
  /\ gameState = "PLAYING"

\* a tick has set the outcome of the run and the outcome is not yet rendered
\* or is on screen
OutcomeSet == queued.gameState \in {"CRASHED", "WON"}

\* C3: once a tick has set the outcome CRASHED or WON, no step other than an
\* accepted startLevel changes the pose or sets PLAYING.
C3_OutcomeTerminal ==
  [][OutcomeSet /\ ~(last'.op = "startLevel" /\ last'.accepted)
       => bikeRef' = bikeRef /\ queued'.gameState # "PLAYING"]_vars

\* C4: the tick that wins a run on level L queues coins + 50 + 25 L,
\* max(unlockedLevels, L + 1), the same bikes and the same selection, with
\* the screen WON, and writes these four values to storage.
C4_WinReward ==
  [][last'.op = "tick" /\ last'.won
       => /\ queued'.coins = coins + 50 + 25 * currentLevel
          /\ queued'.unlockedLevels = Max(unlockedLevels, currentLevel + 1)
          /\ queued'.ownedBikes = ownedBikes
          /\ queued'.selectedBikeId = selectedBikeId
          /\ queued'.gameState = "WON"
          /\ storage' = <<[unlockedLevels |-> queued'.unlockedLevels,
                           coins |-> queued'.coins,
                           ownedBikes |-> queued'.ownedBikes,
                           selectedBikeId |-> queued'.selectedBikeId]>>]_vars

\* level 1 was won with an empty purse: 75 coins and level 2 are queued
C4_Witness ==
  /\ last.op = "tick"
  /\ last.won
  /\ currentLevel = 1
  /\ queued.coins = 75
  /\ queued.unlockedLevels = 2
  /\ storage = <<[unlockedLevels |-> 2, coins |-> 75, ownedBikes |-> <<0>>,
                  selectedBikeId |-> 0]>>

\* C23: at most one animation-frame callback is pending at any moment; a
\* callback that ticks ticks once and leaves one callback pending; a callback
\* that observes a gameState other than PLAYING changes nothing of the run
\* and leaves no callback pending; no tick runs while the screen is not
\* PLAYING; a step that leaves PLAYING leaves one callback pending, which
\* will observe the new gameState, and a step that enters PLAYING leaves
\* exactly one callback pending.
C23_FrameLoop ==
  [][/\ frames <= 1
     /\ frames' <= 1
     /\ last'.op = "tick"
          => /\ gameState = "PLAYING"
             /\ gameLoop.gameState = "PLAYING"
             /\ elapsed' = elapsed + 1
             /\ frames = 1
             /\ frames' = 1
     /\ last'.op = "frame"
          => /\ gameLoop.gameState # "PLAYING"
             /\ UNCHANGED <<bikeRef, elapsed, queued>>
             /\ frames' = 0
     /\ gameState = "PLAYING" /\ gameState' # "PLAYING"
          => frames' = 1 /\ gameLoop'.gameState = gameState'
     /\ gameState # "PLAYING" /\ gameState' = "PLAYING"
          => frames' = 1 /\ gameLoop'.gameState = "PLAYING"]_vars

\* after a crash was rendered the pending callback ran, observed CRASHED and
\* left nothing pending
C23_Witness ==
  /\ last.op = "frame"
  /\ gameState = "CRASHED"
  /\ elapsed > 0
  /\ frames = 0
  /\ ~requestRef

\* C24: the airborne flag of a tick that follows a tick is true exactly when
\* the ground heights at the starting x of the two ticks differ by more than
\* 15, and the first tick after an accepted startLevel is not airborne.
C24_AirborneBetweenTicks ==
  [][last'.op = "tick"
       => /\ last.op = "tick"
               => (last'.isAirborne
                     <=> Abs(getTerrainHeight(last.rearX, terrainRef)
                             - getTerrainHeight(bikeRef.x, terrainRef)) > 15 * ONE)
          /\ elapsed = 0 => ~last'.isAirborne /\ bikeRef = startPose]_vars

\* a tick that followed a tick was airborne: the ground under the two
\* starting positions differs by more than 15
C24_Witness ==
  /\ last.op = "tick"
  /\ last.isAirborne
  /\ elapsed >= 2
  /\ gameState = "PLAYING"

\* C25: a step into, out of or within PAUSED leaves the terrain, the pose
\* and currentLevel as they are; no tick runs while gameState is PAUSED; the
\* step from PAUSED to PLAYING is the RESUME button's setGameState, not
\* startLevel, and leaves the inputs and the time of the run as they are.
C25_PausePreservesRun ==
  [][/\ gameState = "PAUSED" \/ gameState' = "PAUSED"
          => UNCHANGED <<bikeRef, terrainRef, currentLevel>>
     /\ gameState = "PAUSED" => last'.op # "tick"
     /\ gameState = "PAUSED" /\ gameState' = "PLAYING"
          => /\ last'.op = "setGameState"
             /\ UNCHANGED <<inputsRef, elapsed, startPose>>]_vars

\* a run that had moved the bike was paused and resumed
C25_Witness ==
  /\ last.op = "setGameState"
  /\ last.from = "PAUSED"
  /\ gameState = "PLAYING"
  /\ elapsed >= 1
  /\ bikeRef # startPose

\* C26: between an accepted startLevel(L) and the next one the coins grow by
\* at most 50 + 25 * L.
C26_RewardOnce ==
  /\ queued.coins <= startCoins + (50 + 25 * queued.currentLevel)
  /\ coins <= startCoins + (50 + 25 * currentLevel)

\* C27: unlockedLevels is at least 1 and never decreases, in the rendered
\* state and in the queued one; buyBike and selectBike leave it unchanged,
\* and only a tick that won raises it.
C27_UnlockedLevels ==
  [][/\ unlockedLevels >= 1 /\ queued.unlockedLevels >= 1
     /\ unlockedLevels' >= 1 /\ queued'.unlockedLevels >= 1
     /\ unlockedLevels' >= unlockedLevels
     /\ queued'.unlockedLevels >= queued.unlockedLevels
     /\ last'.op \in {"buyBike", "selectBike"}
          => /\ unlockedLevels' = unlockedLevels
             /\ queued'.unlockedLevels = queued.unlockedLevels
             /\ storage' # << >> => storage'[1].unlockedLevels = unlockedLevels
     /\ queued'.unlockedLevels > queued.unlockedLevels
          => last'.op = "tick" /\ last'.won]_vars

\* a bike was bought after level 2 had been unlocked, and level 2 still is
C27_Witness ==
  /\ last.op = "buyBike"
  /\ last.done
  /\ unlockedLevels = 2
  /\ storage[1].unlockedLevels = 2

\* C28: in every state, rendered or queued, coins is not negative, bike 0
\* is owned, no bike is owned twice and the selected bike is owned; buyBike
\* with too few coins or for an owned bike, and selectBike for a bike that
\* is not owned, change nothing; a successful buyBike subtracts the price,
\* appends the id and selects it.
C28_Shop ==
  [][/\ \A g \in {<<coins, ownedBikes, selectedBikeId>>,
                   <<coins', ownedBikes', selectedBikeId'>>,
                   <<queued'.coins, queued'.ownedBikes, queued'.selectedBikeId>>} :
          /\ g[1] >= 0
          /\ Includes(g[2], 0)
          /\ \A i, j \in 1..Len(g[2]) : i # j => g[2][i] # g[2][j]
          /\ Includes(g[2], g[3])
     /\ last'.op = "buyBike"
          => IF coins < last'.price \/ Includes(ownedBikes, last'.id)
             THEN UNCHANGED <<unlockedLevels, coins, ownedBikes,
                              selectedBikeId, queued, storage>>
             ELSE /\ coins' = coins - last'.price
                  /\ ownedBikes' = Append(ownedBikes, last'.id)
                  /\ selectedBikeId' = last'.id
                  /\ unlockedLevels' = unlockedLevels
                  /\ storage' = <<SavedData(unlockedLevels', coins',
                                            ownedBikes', selectedBikeId')>>
     /\ last'.op = "selectBike" /\ ~Includes(ownedBikes, last'.id)
          => UNCHANGED <<unlockedLevels, coins, ownedBikes, selectedBikeId,
                         queued, storage>>]_vars

\* a second bike was bought and is the selected one
C28_Witness ==
  /\ last.op = "buyBike"
  /\ last.done
  /\ last.id = 2
  /\ ownedBikes = <<0, 1, 2>>
  /\ selectedBikeId = 2
  /\ coins = 68 * 75 - 500 - 1500

\* C29: in every state that shows the win screen the gate of startLevel
\* accepts both levels its buttons pass, currentLevel and currentLevel + 1,
\* and every startLevel called from the win screen is accepted.
C29_WinUnlocksNext ==
  [][/\ gameState' = "WON"
          => /\ unlockedLevels' >= currentLevel' + 1
             /\ \A levelId \in StartButtons' : ~LevelLocked(levelId)'
     /\ last'.op = "startLevel" /\ last'.from = "WON" => last'.accepted]_vars

\* the win screen after level 13 was won for the first time: level 14 is
\* unlocked
C29_Witness ==
  /\ gameState = "WON"
  /\ currentLevel = 13
  /\ unlockedLevels = 14
  /\ StartButtons = {13, 14}
  /\ ~LevelLocked(14)
  /\ startPose.x > 100 * ONE

\* C30: the profile an accepted startLevel(levelId) generates has
\* ceil((4000 + 1500 * levelId) / 50) segments; that profile, and the profile
\* of every tick, has at least 41 segments, no sample both among the first
\* 20 and among the last 20, and a sample at index length - 20; the x of
\* that sample is greater than the x = 100 a run starts at.
C30_LevelProfile ==
  [][/\ last'.op = "startLevel" /\ last'.accepted
          => /\ last'.levelId >= 1
             /\ Len(terrainRef') - 1
                  = CeilDiv(4000 + 1500 * last'.levelId, segmentLength)
             /\ bikeRef'.x = 100 * ONE
     /\ (last'.op = "startLevel" /\ last'.accepted) \/ last'.op = "tick"
          => /\ Len(terrainRef') - 1 >= 41
             /\ \A i \in 0..(Len(terrainRef') - 1) :
                  ~(i < 20 /\ i > (Len(terrainRef') - 1) - 20)
             /\ (Len(terrainRef') - 20) \in 0..(Len(terrainRef') - 1)
             /\ terrainRef'[(Len(terrainRef') - 20) + 1].x > 100 * ONE
             /\ terrainRef'[(Len(terrainRef') - 20) + 1].x > startPose'.x]_vars

\* level 2 was started from the win screen of level 1: 140 segments, the
\* finish line at x = 6050, the bike at x = 100
C30_Witness ==
  /\ last.op = "startLevel"
  /\ last.accepted
  /\ last.from = "WON"
  /\ last.levelId = 2
  /\ Len(terrainRef) = 141
  /\ FinishLine(terrainRef) = 6050 * ONE
  /\ bikeRef.x = 100 * ONE

-----------------------------------------------------------------------------
(* Properties of the tick *)

\* a frame of a run that is still running
RunningTick == last'.op = "tick" /\ queued.gameState = "PLAYING"

\* the x of the 20th sample from the end of the course in memory
FinishX == terrainRef[Len(terrainRef) - 19].x

\* the bike stands on the finish line and its tick does not carry it back:
\* upright it ends the tick with velocity >= 0, on its back with velocity <= 0
HoldsTheLine ==
  \/ bikeRef.angle = 0 /\ bikeRef'.velocity >= 0
  \/ bikeRef.angle = PI /\ bikeRef'.velocity <= 0

\* the tick has queued WON and the reward 50 + 25 * currentLevel
WonWithReward ==
  /\ queued'.gameState = "WON"
  /\ queued'.coins = coins + 50 + 25 * currentLevel

\* C5 as claimed: one tick from any running pose with x on the finish line
\* sets WON with the reward, whatever the input flags and the velocity.
C5_AlwaysWonOnTheLine ==
  [][RunningTick /\ bikeRef.x = FinishX => WonWithReward]_vars

\* C5: one tick from a running pose with x on the finish line sets WON with
\* the reward 50 + 25 * currentLevel exactly when the tick does not move the
\* bike back across the line; a tick that leaves the bike rolling backward
\* sets no outcome.
C5_WinThreshold ==
  [][RunningTick /\ bikeRef.x = FinishX
       => IF HoldsTheLine THEN WonWithReward
          ELSE queued'.gameState # "WON" /\ queued'.coins = coins]_vars

\* the bike stood on the finish line rolling forward with the brake held, and
\* its first tick won
C5_Witness ==
  /\ last.op = "tick"
  /\ last.won
  /\ ~last.stale
  /\ elapsed = 1
  /\ startPose.x = FinishX
  /\ startPose.velocity = 10 * ONE
  /\ inputsRef.brake
  /\ queued.gameState = "WON"
  /\ queued.coins = 75

\* the run began upright and at rest in rotation
StartedUpright == startPose.angle = 0 /\ startPose.angularVelocity = 0

\* C6 as claimed: one tick from angle = pi, angularVelocity = 0 sets CRASHED,
\* and no tick of a run that began with angle = 0, angularVelocity = 0 and
\* holds neither left nor right sets CRASHED.
C6_NeverCrashUnsteered ==
  [][RunningTick
       => /\ bikeRef.angle = PI /\ bikeRef.angularVelocity = 0
               => queued'.gameState = "CRASHED"
          /\ StartedUpright /\ ~inputsRef.left /\ ~inputsRef.right
               => queued'.gameState # "CRASHED"]_vars

\* C6: one tick from angle = pi, angularVelocity = 0 leaves the angle in the
\* crash window, and sets CRASHED unless the same tick reaches the finish
\* line; one tick from angle = 0, angularVelocity = 0 never sets CRASHED,
\* whatever the input flags.
C6_CrashWindow ==
  [][RunningTick /\ bikeRef.angularVelocity = 0
       => /\ bikeRef.angle = PI
               => /\ Abs(bikeRef'.angle) % 6284 > 1746
                  /\ Abs(bikeRef'.angle) % 6284 < 4713
                  /\ queued'.gameState = IF bikeRef'.x >= FinishX THEN "WON"
                                         ELSE "CRASHED"
          /\ bikeRef.angle = 0 => queued'.gameState # "CRASHED"]_vars

\* the bike lay on its back short of the finish line and its first tick
\* crashed
C6_Witness ==
  /\ last.op = "tick"
  /\ elapsed = 1
  /\ startPose.angle = PI
  /\ startPose.angularVelocity = 0
  /\ bikeRef.x < FinishX
  /\ queued.gameState = "CRASHED"

\* C7: after every tick -28 <= velocity <= 60 when nitro is held in that
\* tick and -28 <= velocity <= 28 when it is not.
C7_SpeedClamp ==
  [][last'.op = "tick"
       => /\ bikeRef'.velocity >= -28 * ONE
          /\ bikeRef'.velocity <= (IF inputsRef.nitro THEN 60 ELSE 28) * ONE]_vars

\* a velocity of 60 met a tick without nitro and was cut to 28
C7_Witness ==
  /\ last.op = "tick"
  /\ elapsed = 1
  /\ startPose.velocity = 60 * ONE
  /\ ~inputsRef.nitro
  /\ bikeRef.velocity = 28 * ONE

\* C17: a tick calls setGameState(CRASHED) exactly when the angle after the
\* update, reduced into [0, 2 pi) by the mathematical modulus, lies strictly
\* between pi / 1.8 and 1.5 pi, for positive and for negative angles.
C17_CrashByModulus ==
  [][last'.op = "tick"
       => (last'.crashed <=> /\ bikeRef'.angle % 6284 > 1746
                             /\ bikeRef'.angle % 6284 < 4713)]_vars

\* C18: a tick of a running run whose angle after the update is in the
\* crash window ends the run CRASHED and does not take the win branch: the
\* queued gameState is CRASHED and coins and unlockedLevels are as before,
\* also when x has reached the finish line in that tick.
C18_CrashExcludesWin ==
  [][RunningTick /\ last'.crashed
       => /\ queued'.gameState = "CRASHED"
          /\ queued'.coins = queued.coins
          /\ queued'.unlockedLevels = queued.unlockedLevels
          /\ storage' = storage]_vars

\* C20 as claimed: after every tick, grounded or airborne, pose.y is the
\* terrain height at the pose.x that holds after the tick.
C20_HeightUnderNewX ==
  [][last'.op = "tick" => bikeRef'.y = getTerrainHeight(bikeRef'.x, terrainRef)]_vars

\* C20: after every tick, grounded or airborne, pose.y is the terrain height
\* at the pose.x that held before the tick, the rear contact the tick
\* sampled before it moved the bike.
C20_HeightUnderOldX ==
  [][last'.op = "tick" => bikeRef'.y = getTerrainHeight(bikeRef.x, terrainRef)]_vars

\* the first tick of a bike that hung 100 pixels above the foot of the ramp
\* took the airborne branch, moved the bike and left y at the height of the
\* ground it started over, which is not the height under its new x
C20_Witness ==
  /\ last.op = "tick"
  /\ last.isAirborne
  /\ elapsed = 1
  /\ startPose.x = 2950 * ONE
  /\ bikeRef.x # startPose.x
  /\ bikeRef.y = getTerrainHeight(startPose.x, terrainRef)
  /\ bikeRef.y # getTerrainHeight(bikeRef.x, terrainRef)

\* C21: in one tick velocity' = clamp((velocity + sin(angle) * 0.22
\* + [throttle] 0.25 + [nitro] 0.8 - [brake] 0.4) * 0.96, -28, cap) with
\* cap = 60 under nitro and 28 otherwise, the friction after all the terms
\* added and before the clamp, throttle and nitro adding up; and
\* x' = x + cos(angle) * velocity' with the angle of before the tick.
C21_VelocityOrder ==
  [][last'.op = "tick"
       => /\ bikeRef'.velocity
               = Max(Min(RDiv((bikeRef.velocity
                               + RDiv(Sin(bikeRef.angle) * 220, 1000)
                               + (IF inputsRef.throttle THEN 250 ELSE 0)
                               + (IF inputsRef.nitro THEN 800 ELSE 0)
                               - (IF inputsRef.brake THEN 400 ELSE 0)) * 960,
                              1000),
                         IF inputsRef.nitro THEN 60000 ELSE 28000),
                     -28000)
          /\ bikeRef'.x
               = bikeRef.x + RDiv(Cos(bikeRef.angle) * bikeRef'.velocity, 1000)]_vars

\* the first tick of a bike at rest on its back with throttle, nitro and left
\* held: the velocity is (0.25 + 0.8) * 0.96 = 1.008 and x has moved back
C21_Witness ==
  /\ last.op = "tick"
  /\ elapsed = 1
  /\ startPose.velocity = 0
  /\ startPose.angle = PI
  /\ inputsRef = [NoInputs EXCEPT !.throttle = TRUE, !.nitro = TRUE, !.left = TRUE]
  /\ bikeRef.velocity = 1008
  /\ bikeRef.x < startPose.x
  /\ bikeRef.angle # startPose.angle

\* C22: in one tick angularVelocity' = (angularVelocity - [nitro and
\* airborne] 0.03 + angleDiff * gain - [left] force + [right] force) * 0.92
\* with gain = 0.05 under nitro and 0.15 otherwise and force = 0.08 when
\* |angleDiff| > 0.4 and 0.04 otherwise, whether airborne or not; left and
\* right together cancel; then angle' = angle + angularVelocity'.
C22_RotationOrder ==
  [][last'.op = "tick"
       => \E d \in {AngleDiff(bikeRef, terrainRef)} :
            \E force \in {IF Abs(d) > 400 THEN 80 ELSE 40} :
              /\ bikeRef'.angularVelocity
                   = RDiv((bikeRef.angularVelocity
                           - (IF inputsRef.nitro /\ last'.isAirborne THEN 30 ELSE 0)
                           + RDiv(d * (IF inputsRef.nitro THEN 50 ELSE 150), 1000)
                           - (IF inputsRef.left THEN force ELSE 0)
                           + (IF inputsRef.right THEN force ELSE 0)) * 920,
                          1000)
              /\ bikeRef'.angle = bikeRef.angle + bikeRef'.angularVelocity
              /\ inputsRef.left /\ inputsRef.right
                   => bikeRef'.angularVelocity
                        = RDiv((bikeRef.angularVelocity
                                - (IF inputsRef.nitro /\ last'.isAirborne
                                   THEN 30 ELSE 0)
                                + RDiv(d * (IF inputsRef.nitro THEN 50 ELSE 150),
                                       1000)) * 920,
                               1000)]_vars

\* the first tick of a bike on the ground, on its back, with left held: the
\* angle is far from the ground's and the force is the boosted 0.08
C22_Witness ==
  /\ last.op = "tick"
  /\ elapsed = 1
  /\ ~last.isAirborne
  /\ startPose.angle = PI
  /\ inputsRef = [NoInputs EXCEPT !.left = TRUE]
  /\ Abs(AngleDiff(startPose, terrainRef)) > 400
  /\ bikeRef.angularVelocity
       = RDiv((RDiv(AngleDiff(startPose, terrainRef) * 150, 1000) - 80) * 920, 1000)

-----------------------------------------------------------------------------
(* Properties of the terrain *)

\* C8: an accepted startLevel of the level whose course is in memory
\* installs the same course again, whatever happened since.
C8_SameCourse ==
  [][\A levelId \in 1..LevelButtons :
       StartStep(levelId) /\ levelId <= unlockedLevels
         /\ terrainRef # << >> /\ currentLevel = levelId
         => terrainRef' = terrainRef]_vars

\* level 1 was started again from its win screen, with the reward in the
\* purse and level 2 unlocked
C8_Witness ==
  /\ last.op = "startLevel"
  /\ last.accepted
  /\ last.from = "WON"
  /\ last.levelId = 1
  /\ currentLevel = 1
  /\ coins = 75
  /\ unlockedLevels = 2

\* C9: a generated profile has ceil(length / 50) + 1 samples and sample i
\* (counted from 0) has x = 50 i.
C9_SampleGrid ==
  last.op = "generateTerrain"
    => /\ Len(terrainRef) = ((last.length + 49) \div 50) + 1
       /\ \A k \in 1..Len(terrainRef) : terrainRef[k].x = 50 * (k - 1) * ONE

\* a profile of length 51: two segments, three samples
C9_Witness ==
  /\ last.op = "generateTerrain"
  /\ last.length = 51
  /\ Len(terrainRef) = 3

\* C10: every sample of a generated profile has 100 <= y <= 1030.
C10_HeightClamp ==
  \A k \in 1..Len(terrainRef) :
    terrainRef[k].y >= 100 * ONE /\ terrainRef[k].y <= 1030 * ONE

\* the course of a level with a ramp that rises above y = 350
C10_Witness ==
  /\ last.op = "generateTerrain"
  /\ \E k \in 1..Len(terrainRef) : terrainRef[k].y < 350 * ONE

C19_EdgeDamping ==
  last.op = "generateTerrain" /\ Len(terrainRef) - 1 >= 41
    => /\ terrainRef[1].y = 756 * ONE
       /\ terrainRef[Len(terrainRef)].y = 756 * ONE
       /\ \A i \in 0..(Len(terrainRef) - 1) :
            terrainRef[i + 1].y
              = Max(Min(756 * ONE
                        - (IF i < 20 THEN RDiv(Noise(i, last.seed) * i, 20)
                           ELSE IF i > (Len(terrainRef) - 1) - 20
                             THEN RDiv(Noise(i, last.seed)
                                         * ((Len(terrainRef) - 1) - i), 20)
                           ELSE Noise(i, last.seed)),
                        1030 * ONE),
                    100 * ONE)

\* the course of level 1, 110 segments: sample 100 lies in the end window off
\* the baseline, sample 50 between the windows off the baseline, and the two
\* end samples on the baseline
C19_Witness ==
  /\ last.op = "generateTerrain"
  /\ last.length = 5500
  /\ last.seed = 999
  /\ Len(terrainRef) = 111
  /\ terrainRef[101].y # 756 * ONE
  /\ terrainRef[51].y # 756 * ONE
  /\ terrainRef[1].y = 756 * ONE
  /\ terrainRef[111].y = 756 * ONE

-----------------------------------------------------------------------------
(* Properties of the sampler *)

\* the x of the last sample of the profile in memory
LastX == terrainRef[Len(terrainRef)].x

\* C11: for x < 0 the sampler returns the y of the first sample, for x at or
\* beyond the x of the last sample the y of the last sample, and every height
\* it returns lies between the smallest and the largest sample y.
C11_SamplerClamp ==
  last.op = "getTerrainHeight"
    => /\ last.x < 0 => last.height = terrainRef[1].y
       /\ last.x >= LastX => last.height = terrainRef[Len(terrainRef)].y
       /\ \E a, b \in 1..Len(terrainRef) :
            terrainRef[a].y <= last.height /\ last.height <= terrainRef[b].y

\* a position beyond a profile of three samples whose last two heights
\* differ was sampled
C11_Witness ==
  /\ last.op = "getTerrainHeight"
  /\ Len(terrainRef) = 3
  /\ last.x > LastX
  /\ terrainRef[3].y # terrainRef[2].y
  /\ last.height = terrainRef[3].y

\* C12: for 0 <= x inside the profile the sampler returns
\* y[k] + (y[k+1] - y[k]) (x - 50 k) / 50 with k = floor(x / 50); on a sample
\* position it returns that sample's y; and one resolution step to the left
\* of a sample position it returns a height that differs by no more than the
\* slope of the left segment over that step allows.
C12_Interpolation ==
  last.op = "getTerrainHeight"
    => /\ last.x >= 0 /\ last.x < LastX
            => \E k \in {last.x \div 50000} :
                 last.height
                   = terrainRef[k + 1].y
                     + RDiv((terrainRef[k + 2].y - terrainRef[k + 1].y)
                              * RDiv(last.x - 50000 * k, 50), 1000)
       /\ \A k \in 1..Len(terrainRef) :
            last.x = terrainRef[k].x => last.height = terrainRef[k].y
       /\ \A k \in 2..Len(terrainRef) :
            last.x = terrainRef[k].x
              => Abs(getTerrainHeight(last.x - 1, terrainRef) - last.height)
                   <= (Abs(terrainRef[k].y - terrainRef[k - 1].y) \div 50000) + 1

\* the middle of a segment that climbs from y = 1030 to y = 100 was sampled
C12_Witness ==
  /\ last.op = "getTerrainHeight"
  /\ Len(terrainRef) >= 2
  /\ last.x = 25 * ONE
  /\ terrainRef[1].y = 1030 * ONE
  /\ terrainRef[2].y = 100 * ONE
  /\ last.height = 565 * ONE

-----------------------------------------------------------------------------
(* Properties of the load effect *)

\* C13: after the load effect, when the item is missing or does not parse,
\* unlockedLevels, coins, ownedBikes and selectedBikeId are 1, 0, [0] and 0;
\* when it parses, every member it lacks has its default.
C13_LoadDefaults ==
  last.op = "load"
    => IF storage = << >> THEN queued = Rendered /\ unlockedLevels = 1 /\ coins = 0
                               /\ selectedBikeId = 0 /\ ownedBikes = <<0>>
       ELSE IF storage[1] = [SyntaxError |-> TRUE]
         THEN queued = Rendered /\ unlockedLevels = 1 /\ coins = 0
              /\ selectedBikeId = 0 /\ ownedBikes = <<0>>
       ELSE /\ "unlockedLevels" \notin DOMAIN storage[1] => queued.unlockedLevels = 1
            /\ "coins" \notin DOMAIN storage[1] => queued.coins = 0
            /\ "selectedBikeId" \notin DOMAIN storage[1] => queued.selectedBikeId = 0
            /\ "ownedBikes" \notin DOMAIN storage[1] => queued.ownedBikes = <<0>>

\* an item with coins and bikes but no unlockedLevels and no selectedBikeId
\* was loaded
C13_Witness ==
  /\ last.op = "load"
  /\ storage = <<[coins |-> 500, ownedBikes |-> <<0, 1>>]>>
  /\ queued.coins = 500
  /\ queued.ownedBikes = <<0, 1>>
  /\ queued.unlockedLevels = 1
  /\ queued.selectedBikeId = 0

-----------------------------------------------------------------------------
(* Properties of the run across garages *)

\* the pose one frame after bike, from the pose, the course and the keys
PoseAfter(bike, terrain, inputs) ==
  Moved(bike, Velocity(bike, inputs),
        AngularVelocity(bike, inputs, IsAirborne(bike, terrain),
                        AngleDiff(bike, terrain)),
        getTerrainHeight(bike.x, terrain))

\* the pose n frames after bike under the same keys
RECURSIVE PoseAtFrame(_, _, _, _)
PoseAtFrame(n, bike, terrain, inputs) ==
  IF n = 0 THEN bike
  ELSE PoseAfter(PoseAtFrame(n - 1, bike, terrain, inputs), terrain, inputs)

\* C14: in every run, whatever bikes are owned and whichever is selected,
\* the pose after n frames is the pose that the fresh pose, the course and
\* the keys held determine, and the crash and win flags of a frame are those
\* of that pose: two runs of the level under the same keys that differ in the
\* garage have the same poses and the same outcome frame by frame.
C14_BikeSelectionApart ==
  /\ bikeRef = PoseAtFrame(elapsed, startPose, terrainRef, inputsRef)
  /\ last.op = "tick"
       => /\ last.crashed = (Abs(bikeRef.angle) % 6284 > 1746
                               /\ Abs(bikeRef.angle) % 6284 < 4713)
          /\ last.won = (bikeRef.x >= FinishX)

\* a run on bike 3 crashed in its twelfth frame
C14_Witness ==
  /\ selectedBikeId = 3
  /\ ownedBikes = <<0, 1, 3>>
  /\ last.op = "tick"
  /\ elapsed = 12
  /\ last.crashed
  /\ bikeRef.x # startPose.x

-----------------------------------------------------------------------------
(* Properties of the run on flat ground *)

\* a frame of a running run that began at rest and upright and holds the
\* throttle and no other key
ThrottleTick ==
  /\ RunningTick
  /\ startPose.velocity = 0
  /\ startPose.angle = 0
  /\ inputsRef = [NoInputs EXCEPT !.throttle = TRUE]

\* C15 as claimed: with only the throttle held on flat ground the velocity
\* grows toward 0.25 / (1 - 0.96) = 6.25 and never exceeds MAX_SPEED: it
\* never decreases, stays at or below 28, and where it stops growing it has
\* reached 6.25 within the resolution of the growth.
C15_ThrottleLimitAsClaimed ==
  [][ThrottleTick
       => /\ bikeRef'.velocity >= bikeRef.velocity
          /\ bikeRef'.velocity <= 28 * ONE
          /\ bikeRef'.velocity = bikeRef.velocity
               => 6250 - bikeRef.velocity <= 13]_vars

\* C15: with only the throttle held on flat ground the velocity grows toward
\* 0.25 * 0.96 / (1 - 0.96) = 6.0: it never decreases, grows strictly below
\* 5.9, never exceeds 6.0 (and so never MAX_SPEED), its distance to 6.0
\* shrinks by the factor 0.96 in every frame, and where it stops growing
\* it has reached 6.0 within the resolution of the growth.
C15_ThrottleLimit ==
  [][ThrottleTick
       => /\ bikeRef'.velocity >= bikeRef.velocity
          /\ bikeRef.velocity < 5900 => bikeRef'.velocity > bikeRef.velocity
          /\ bikeRef'.velocity <= 6000
          /\ bikeRef'.velocity <= 28 * ONE
          /\ Abs((6000 - bikeRef'.velocity)
                  - RDiv(960 * (6000 - bikeRef.velocity), 1000)) <= 1
          /\ bikeRef'.velocity = bikeRef.velocity
               => 6000 - bikeRef.velocity <= 13]_vars

\* after 150 frames of throttle the velocity stands at 5.988
C15_Witness ==
  /\ last.op = "tick"
  /\ elapsed = 150
  /\ inputsRef = [NoInputs EXCEPT !.throttle = TRUE]
  /\ startPose.velocity = 0
  /\ bikeRef.angle = 0
  /\ bikeRef.velocity = 5988

====
